---- MODULE Spec2Model ----
(***************************************************************************)
(* A state-machine model of magstar_client.py: the MagstarV1API client,    *)
(* its single-page fetcher get_station_measurements_by_id, and the         *)
(* generator iterate_station_measurements that follows the server's        *)
(* cursor from page to page.                                               *)
(*                                                                         *)
(* Time is counted in tenths of a second, so the 0.1 s floor of            *)
(* poll_delay is 1.  Python's None (and JSON null) is the integer -1,      *)
(* which is no timestamp, limit or delay of the model.                     *)
(***************************************************************************)
EXTENDS Integers, Sequences, FiniteSets, TLC

\* ------------------------------------------------------------------ bounds

MaxTs == 2
MaxPageLen == 2
MaxFetches == 3
MaxReceived == 2
ServerPageCap == 1

\* ------------------------------------------------------- program constants

None == -1
PageLimit == 2500
MinPollDelay == 1

\* ------------------------------------------------------------ value spaces

Iters == {1, 2}
Ts == 1 .. MaxTs
OptTs == {None} \cup Ts
PollDelays == {0, 2}
Oversleeps == {0, 1}
\* The bounds a caller passes: none, or a timestamp.
CallerBounds == {None, 1}
\* The limits a caller passes to the page fetcher: none, small, the documented
\* ceiling, and one above it.
LimitArgs == {None, 1, PageLimit, PageLimit + 1}

\* A station_id argument: Python is dynamically typed, so the caller may pass
\* a value of any type.
StationIdArgs ==
    { [type |-> "int", val |-> 7],
      [type |-> "bool", val |-> 1],
      [type |-> "str", val |-> 7],
      [type |-> "float", val |-> 7],
      [type |-> "NoneType", val |-> None] }
IterStationIds ==
    { [type |-> "int", val |-> 7], [type |-> "str", val |-> 7] }

\* One measurement object of the JSON body (the fields the model follows).
RawMeasurement(t) == [timestamp |-> t, x |-> 10 * t]
RawMs == { RawMeasurement(t) : t \in Ts }

RECURSIVE SeqsUpTo(_, _)
SeqsUpTo(S, n) ==
    IF n = 0 THEN { <<>> }
    ELSE LET shorter == SeqsUpTo(S, n - 1)
         IN  shorter \cup { Append(s, e) : s \in { q \in shorter : Len(q) = n - 1 }, e \in S }

\* Every JSON body a page source may answer with.
RawPages ==
    [ measurements : SeqsUpTo(RawMs, MaxPageLen),
      has_further_data : BOOLEAN,
      next_ts : OptTs ]
\* A JSON body that lacks an expected key.
MalformedBody == [measurements |-> <<>>, has_further_data |-> FALSE]

\* What the transport gets back for one request.
HttpError == [kind |-> "error"]
OkResponse(body) == [kind |-> "ok", body |-> body]
MockResponses == { HttpError, OkResponse(MalformedBody) } \cup { OkResponse(b) : b \in RawPages }

NoResult == [absent |-> TRUE]
NoRequest == [absent |-> TRUE]
NoArgs == [absent |-> TRUE]
NoCall == [op |-> "none"]

VARIABLES
    store,              \* timestamps stored by the server (server-backed runs)
    api,                \* the last direct call and what it did
    pc,                 \* position of each generator
    args,               \* arguments of each iterate_station_measurements call
    need_measurements,  \* generator local
    next_after_ts,      \* generator local
    next_before_ts,     \* generator local
    poll_delay,         \* generator local (after the clamp)
    result,             \* generator local: the page being iterated
    idx,                \* position of the for loop in result.measurements
    yielded,            \* history: measurements handed to the consumer
    received,           \* history: measurements of the pages fetched so far
    nfetch,             \* history: page-fetcher calls made
    nsleep,             \* history: time.sleep calls made
    slept,              \* history: time slept since the last page-fetcher call
    pulls,              \* history: next() calls that resumed the generator
    outcome,            \* what the last next() gave the consumer
    lastReq,            \* history: the request of the last page-fetcher call
    hfdLog              \* history: has_further_data of each page fetched

vars ==
    << store, api, pc, args, need_measurements, next_after_ts, next_before_ts,
       poll_delay, result, idx, yielded, received, nfetch, nsleep, slept, pulls,
       outcome, lastReq, hfdLog >>

\* The variables of the generators.
iterVars ==
    << pc, args, need_measurements, next_after_ts, next_before_ts,
       poll_delay, result, idx, yielded, received, nfetch, nsleep, slept, pulls,
       outcome, lastReq, hfdLog >>

\* ---------------------------------------------------------- pure functions

Max(a, b) == IF a >= b THEN a ELSE b

\* isinstance(station_id, int): bool is a subclass of int.
IsInstanceInt(v) == v.type \in {"int", "bool"}

\* MagstarMeasurement.from_api
MeasurementFromApi(raw) == [timestamp |-> raw.timestamp, b_x |-> raw.x]

HasPageKeys(raw) == {"measurements", "has_further_data", "next_ts"} \subseteq DOMAIN raw

\* MagstarMeasurementResult.from_api
ResultFromApi(raw) ==
    [ measurements |-> [k \in 1 .. Len(raw.measurements) |-> MeasurementFromApi(raw.measurements[k])],
      has_further_data |-> raw.has_further_data,
      next_ts |-> raw.next_ts ]

\* The params dict of get_station_measurements_by_id.
WithAfter(params, after_ts) ==
    IF after_ts # None THEN params @@ ("after_ts" :> after_ts) ELSE params
WithBefore(params, before_ts) ==
    IF before_ts # None THEN params @@ ("before_ts" :> before_ts) ELSE params
WithLimitAlways(params, limit) == params @@ ("limit" :> limit)
WithLimit(params, limit) ==
    IF limit # None THEN params @@ ("limit" :> limit) ELSE params
BuildParams(after_ts, before_ts, limit, reverse_order) ==
    WithLimit(WithBefore(WithAfter([reverse_order |-> reverse_order], after_ts), before_ts), limit)

MeasurementsRequest(station_id, params) ==
    [ endpoint |-> "/v1/stations/{0}/measurements", station_id |-> station_id.val, params |-> params ]

\* _get: raise_for_status() raises on an error response, otherwise the decoded
\* JSON body is returned.
GetRaises(resp) == resp.kind = "error"

\* get_station_measurements_by_id against the response resp of the service:
\* what it raised, how many requests it sent, the request and the page.
GetStationMeasurementsUnchecked(station_id, after_ts, before_ts, limit, reverse_order, resp) ==
    LET req == MeasurementsRequest(station_id, BuildParams(after_ts, before_ts, limit, reverse_order))
    IN  IF GetRaises(resp)
        THEN [raised |-> "RequestError", sent |-> 1, req |-> req, result |-> NoResult]
        ELSE IF ~HasPageKeys(resp.body)
        THEN [raised |-> "KeyError", sent |-> 1, req |-> req, result |-> NoResult]
        ELSE [raised |-> "none", sent |-> 1, req |-> req, result |-> ResultFromApi(resp.body)]

GetStationMeasurementsById(station_id, after_ts, before_ts, limit, reverse_order, resp) ==
    IF ~IsInstanceInt(station_id)
    THEN [raised |-> "AssertionError", sent |-> 0, req |-> NoRequest, result |-> NoResult]
    ELSE GetStationMeasurementsUnchecked(station_id, after_ts, before_ts, limit, reverse_order, resp)

\* MagstarStationExtendedData.from_api (the fields the model follows).
StationFromApi(raw) == [station_id |-> raw.station_id, name |-> raw.name]

StationRequest(station_id) ==
    [ endpoint |-> "/v1/stations/{0}", station_id |-> station_id.val ]

\* get_station_details_by_id against the response resp of the service.
GetStationUnchecked(station_id, resp) ==
    IF GetRaises(resp)
    THEN [raised |-> "RequestError", sent |-> 1, req |-> StationRequest(station_id), result |-> NoResult]
    ELSE IF ~({"station_id", "name"} \subseteq DOMAIN resp.body)
    THEN [raised |-> "KeyError", sent |-> 1, req |-> StationRequest(station_id), result |-> NoResult]
    ELSE [raised |-> "none", sent |-> 1, req |-> StationRequest(station_id),
          result |-> StationFromApi(resp.body)]

GetStationWithoutAssert(station_id, resp) == GetStationUnchecked(station_id, resp)
GetStationDetailsById(station_id, resp) ==
    IF ~IsInstanceInt(station_id)
    THEN [raised |-> "AssertionError", sent |-> 0, req |-> NoRequest, result |-> NoResult]
    ELSE GetStationUnchecked(station_id, resp)

\* ------------------------------------------------------------ the service

Min(a, b) == IF a <= b THEN a ELSE b

ParamOr(params, key) == IF key \in DOMAIN params THEN params[key] ELSE None

\* The stored timestamps within the inclusive bounds of a request.
InRange(st, after_ts, before_ts) ==
    { t \in st : (after_ts = None \/ t >= after_ts) /\ (before_ts = None \/ t <= before_ts) }

SetMin(S) == CHOOSE t \in S : \A u \in S : t <= u
SetMax(S) == CHOOSE t \in S : \A u \in S : t >= u

RECURSIVE Ordered(_, _)
Ordered(S, reverse_order) ==
    IF S = {} THEN <<>>
    ELSE LET h == IF reverse_order THEN SetMax(S) ELSE SetMin(S)
         IN  <<h>> \o Ordered(S \ {h}, reverse_order)

\* The body a service holding the timestamps st answers a measurements request
\* with: the first measurements of the range in the requested direction, at
\* most the page cap, whether more remain, and the timestamp to continue from.
ServerBody(st, params) ==
    LET all == Ordered(InRange(st, ParamOr(params, "after_ts"), ParamOr(params, "before_ts")),
                       params.reverse_order)
        asked == ParamOr(params, "limit")
        n == Min(IF asked = None THEN ServerPageCap ELSE Min(asked, ServerPageCap), Len(all))
        more == Len(all) > n
    IN  [ measurements |-> [k \in 1 .. n |-> RawMeasurement(all[k])],
          has_further_data |-> more,
          next_ts |-> IF more THEN all[n + 1] ELSE None ]

\* ------------------------------------------------ the generator's own state

\* The frame that holds generator i's locals: each call of
\* iterate_station_measurements runs in a frame of its own.
FrameShared(i) == 1
Frame(i) == i

\* poll_delay = max(poll_delay, 0.1)
ClampNothing(d) == d
ClampPollDelay(d) == Max(d, MinPollDelay)

\* Lines 220-223: the cursor bounds after a page.
CursorBothSides(page, reverse_order, after_ts, before_ts) ==
    IF page.has_further_data
    THEN [after_ts |-> page.next_ts, before_ts |-> page.next_ts]
    ELSE [after_ts |-> after_ts, before_ts |-> before_ts]
CursorSwapped(page, reverse_order, after_ts, before_ts) ==
    IF page.has_further_data /\ reverse_order
    THEN [after_ts |-> page.next_ts, before_ts |-> before_ts]
    ELSE IF page.has_further_data
    THEN [after_ts |-> after_ts, before_ts |-> page.next_ts]
    ELSE [after_ts |-> after_ts, before_ts |-> before_ts]
CursorAfterPage(page, reverse_order, after_ts, before_ts) ==
    IF page.has_further_data /\ reverse_order
    THEN [after_ts |-> after_ts, before_ts |-> page.next_ts]
    ELSE IF page.has_further_data
    THEN [after_ts |-> page.next_ts, before_ts |-> before_ts]
    ELSE [after_ts |-> after_ts, before_ts |-> before_ts]

\* need_measurements = result.has_further_data
NeedOnlyIfNonEmpty(page) == page.has_further_data /\ Len(page.measurements) > 0
NeedAfterPage(page) == page.has_further_data

\* Where the page fetcher is called from: the body of the while loop, which
\* only a next() of the consumer reaches.
CanFetchEagerly(i) == pc[i] \in {"loop", "created"}
CanFetch(i) == pc[i] = "loop" /\ need_measurements[i]

\* Where the generator is after the page fetcher raised: no try/except
\* surrounds the call, so the exception leaves the generator, which is closed.
PcRetry(i) == "loop"
PcAfterRaise(i) == "raised"

\* The request parameters of generator i's next page fetch.
IterParams(i) ==
    BuildParams(next_after_ts[Frame(i)], next_before_ts[Frame(i)], PageLimit,
                args[i].reverse_order)

Init ==
    /\ store = {}
    /\ api = NoCall
    /\ pc = [i \in Iters |-> "none"]
    /\ args = [i \in Iters |-> NoArgs]
    /\ need_measurements = [i \in Iters |-> FALSE]
    /\ next_after_ts = [i \in Iters |-> None]
    /\ next_before_ts = [i \in Iters |-> None]
    /\ poll_delay = [i \in Iters |-> 0]
    /\ result = [i \in Iters |-> NoResult]
    /\ idx = [i \in Iters |-> 0]
    /\ yielded = [i \in Iters |-> <<>>]
    /\ received = [i \in Iters |-> <<>>]
    /\ nfetch = [i \in Iters |-> 0]
    /\ nsleep = [i \in Iters |-> 0]
    /\ slept = [i \in Iters |-> 0]
    /\ pulls = [i \in Iters |-> 0]
    /\ outcome = [i \in Iters |-> "none"]
    /\ lastReq = [i \in Iters |-> NoRequest]
    /\ hfdLog = [i \in Iters |-> <<>>]

\* iterate_station_measurements(...) is called: Python builds the generator
\* object and runs none of the body.  A call made when an earlier generator
\* has finished takes its place.
Call(i, station_id, after_ts, before_ts, reverse_order, delay) ==
    /\ pc[i] \in {"none", "done", "raised"}
    /\ pc' = [pc EXCEPT ![i] = "created"]
    /\ args' = [args EXCEPT ![i] =
            [ station_id |-> station_id, after_ts |-> after_ts, before_ts |-> before_ts,
              reverse_order |-> reverse_order, poll_delay |-> delay ]]
    /\ need_measurements' = [need_measurements EXCEPT ![i] = FALSE]
    /\ poll_delay' = [poll_delay EXCEPT ![i] = 0]
    /\ result' = [result EXCEPT ![i] = NoResult]
    /\ idx' = [idx EXCEPT ![i] = 0]
    /\ yielded' = [yielded EXCEPT ![i] = <<>>]
    /\ received' = [received EXCEPT ![i] = <<>>]
    /\ nfetch' = [nfetch EXCEPT ![i] = 0]
    /\ nsleep' = [nsleep EXCEPT ![i] = 0]
    /\ slept' = [slept EXCEPT ![i] = 0]
    /\ pulls' = [pulls EXCEPT ![i] = 0]
    /\ outcome' = [outcome EXCEPT ![i] = "none"]
    /\ lastReq' = [lastReq EXCEPT ![i] = NoRequest]
    /\ hfdLog' = [hfdLog EXCEPT ![i] = <<>>]
    /\ UNCHANGED << store, api, next_after_ts, next_before_ts >>

\* The first next(): lines 207-210, up to the head of the while loop.
Start(i) ==
    /\ pc[i] = "created"
    /\ pc' = [pc EXCEPT ![i] = "loop"]
    /\ need_measurements' = [need_measurements EXCEPT ![i] = TRUE]
    /\ next_after_ts' = [next_after_ts EXCEPT ![Frame(i)] = args[i].after_ts]
    /\ next_before_ts' = [next_before_ts EXCEPT ![Frame(i)] = args[i].before_ts]
    /\ poll_delay' = [poll_delay EXCEPT ![i] = ClampPollDelay(args[i].poll_delay)]
    /\ pulls' = [pulls EXCEPT ![i] = @ + 1]
    /\ UNCHANGED << store, api, args, result, idx, yielded, received, nfetch, nsleep,
                    slept, outcome, lastReq, hfdLog >>

\* A later next(): the generator resumes after the yield, in the for loop.
Resume(i) ==
    /\ pc[i] = "suspended"
    /\ pc' = [pc EXCEPT ![i] = "for"]
    /\ pulls' = [pulls EXCEPT ![i] = @ + 1]
    /\ UNCHANGED << store, api, args, need_measurements, next_after_ts, next_before_ts,
                    poll_delay, result, idx, yielded, received, nfetch, nsleep, slept,
                    outcome, lastReq, hfdLog >>

\* next() on a generator that returned or raised: StopIteration, nothing runs.
NextOnClosed(i) ==
    /\ pc[i] \in {"done", "raised"}
    /\ outcome[i] # "StopIteration"
    /\ outcome' = [outcome EXCEPT ![i] = "StopIteration"]
    /\ UNCHANGED << store, api, pc, args, need_measurements, next_after_ts, next_before_ts,
                    poll_delay, result, idx, yielded, received, nfetch, nsleep, slept,
                    pulls, lastReq, hfdLog >>

\* Lines 212-216: the loop test holds and one page is fetched, the service
\* answering with one of `answers`; an error of the fetch leaves the generator
\* through the consumer's next().
Fetch(i, answers) ==
    /\ CanFetch(i)
    /\ nfetch[i] < MaxFetches
    /\ \E resp \in answers :
         LET got == GetStationMeasurementsById(
                        args[i].station_id, next_after_ts[Frame(i)], next_before_ts[Frame(i)],
                        PageLimit, args[i].reverse_order, resp)
         IN  /\ nfetch' = [nfetch EXCEPT ![i] = @ + 1]
             /\ lastReq' = [lastReq EXCEPT ![i] = got.req]
             /\ slept' = [slept EXCEPT ![i] = 0]
             /\ IF got.raised # "none"
                THEN /\ pc' = [pc EXCEPT ![i] = PcAfterRaise(i)]
                     /\ outcome' = [outcome EXCEPT ![i] = got.raised]
                     /\ UNCHANGED << result, idx, received, hfdLog >>
                ELSE /\ pc' = [pc EXCEPT ![i] = "for"]
                     /\ result' = [result EXCEPT ![i] = got.result]
                     /\ idx' = [idx EXCEPT ![i] = 0]
                     /\ received' = [received EXCEPT ![i] = @ \o got.result.measurements]
                     /\ hfdLog' = [hfdLog EXCEPT ![i] = Append(@, got.result.has_further_data)]
                     /\ UNCHANGED outcome
    /\ UNCHANGED << store, api, args, need_measurements, next_after_ts, next_before_ts,
                    poll_delay, yielded, nsleep, pulls >>

\* Line 212: the loop test fails, the generator returns (StopIteration).
Exhaust(i) ==
    /\ pc[i] = "loop"
    /\ ~need_measurements[i]
    /\ pc' = [pc EXCEPT ![i] = "done"]
    /\ outcome' = [outcome EXCEPT ![i] = "StopIteration"]
    /\ UNCHANGED << store, api, args, need_measurements, next_after_ts, next_before_ts,
                    poll_delay, result, idx, yielded, received, nfetch, nsleep, slept,
                    pulls, lastReq, hfdLog >>

\* Lines 217-218: the next measurement of the page is yielded.
Yield(i) ==
    /\ pc[i] = "for"
    /\ idx[i] < Len(result[i].measurements)
    /\ yielded' = [yielded EXCEPT ![i] = Append(@, result[i].measurements[idx[i] + 1])]
    /\ idx' = [idx EXCEPT ![i] = @ + 1]
    /\ pc' = [pc EXCEPT ![i] = "suspended"]
    /\ outcome' = [outcome EXCEPT ![i] = "value"]
    /\ UNCHANGED << store, api, args, need_measurements, next_after_ts, next_before_ts,
                    poll_delay, result, received, nfetch, nsleep, slept, pulls, lastReq,
                    hfdLog >>

\* Lines 219-224: the page is used up; the loop flag and the cursor are set
\* and the generator sleeps (time.sleep waits at least the time asked for).
EndPage(i, over) ==
    /\ pc[i] = "for"
    /\ idx[i] = Len(result[i].measurements)
    /\ LET cur == CursorAfterPage(result[i], args[i].reverse_order,
                                  next_after_ts[Frame(i)], next_before_ts[Frame(i)])
       IN  /\ next_after_ts' = [next_after_ts EXCEPT ![Frame(i)] = cur.after_ts]
           /\ next_before_ts' = [next_before_ts EXCEPT ![Frame(i)] = cur.before_ts]
    /\ need_measurements' = [need_measurements EXCEPT ![i] = NeedAfterPage(result[i])]
    /\ slept' = [slept EXCEPT ![i] = @ + poll_delay[i] + over]
    /\ nsleep' = [nsleep EXCEPT ![i] = @ + 1]
    /\ pc' = [pc EXCEPT ![i] = "loop"]
    /\ UNCHANGED << store, api, args, poll_delay, result, idx, yielded, received, nfetch,
                    pulls, outcome, lastReq, hfdLog >>

\* ------------------------------------------------------------ direct calls

\* client.get_station_details_by_id(station_id)
GetStation(station_id, resp) ==
    /\ api = NoCall
    /\ api' = [op |-> "get_station", station_id |-> station_id]
                  @@ GetStationDetailsById(station_id, resp)
    /\ UNCHANGED << store, iterVars >>

\* client.get_station_measurements_by_id(station_id, after_ts, before_ts, limit, reverse_order)
GetMeasurements(station_id, after_ts, before_ts, limit, reverse_order, resp) ==
    /\ api = NoCall
    /\ api' = [ op |-> "get_measurements", station_id |-> station_id, after_ts |-> after_ts,
                before_ts |-> before_ts, limit |-> limit, reverse_order |-> reverse_order ]
                  @@ GetStationMeasurementsById(station_id, after_ts, before_ts, limit,
                                                reverse_order, resp)
    /\ UNCHANGED << store, iterVars >>

\* The caller has taken the value or the exception of its direct call.
Return ==
    /\ api # NoCall
    /\ api' = NoCall
    /\ UNCHANGED << store, iterVars >>

\* --------------------------------------------------------- specifications

\* The answers of an arbitrary page source to generator i's next fetch (the
\* pages are kept within the total the model follows).
MockAnswers(i) ==
    { r \in MockResponses :
        r.kind = "ok" /\ HasPageKeys(r.body)
            => Len(received[i]) + Len(r.body.measurements) <= MaxReceived }

\* The answer of the service that holds `store`.
ServerAnswers(i) == { OkResponse(ServerBody(store, IterParams(i))) }

StationBodies == { [station_id |-> 7, name |-> "BOU"], [station_id |-> 7] }
StationResponses == { HttpError } \cup { OkResponse(b) : b \in StationBodies }

\* One iterator consumed against an arbitrary page source.  Each sleep lasts
\* exactly the time asked for, the shortest time.sleep may take.
Next ==
    \E i \in {1} :
        \/ /\ pc[i] = "none"
           /\ \E s \in IterStationIds, a \in CallerBounds, b \in CallerBounds, r \in BOOLEAN,
                 d \in PollDelays :
                  Call(i, s, a, b, r, d)
        \/ Start(i)
        \/ Resume(i)
        \/ NextOnClosed(i)
        \/ Fetch(i, MockAnswers(i))
        \/ Exhaust(i)
        \/ Yield(i)
        \/ EndPage(i, 0)

Spec == Init /\ [][Next]_vars

\* The direct calls of the client, against arbitrary responses.
NextApi ==
    \/ /\ api = NoCall
       /\ \E s \in StationIdArgs, resp \in StationResponses : GetStation(s, resp)
    \/ /\ api = NoCall
       /\ \E s \in StationIdArgs, a \in CallerBounds, b \in CallerBounds, l \in LimitArgs,
             r \in BOOLEAN, resp \in MockResponses :
              GetMeasurements(s, a, b, l, r, resp)
    \/ Return

SpecApi == Init /\ [][NextApi]_vars

\* The service holds a fixed finite set of measurements.
InitServer ==
    /\ Init!2 /\ Init!3 /\ Init!4 /\ Init!5 /\ Init!6 /\ Init!7 /\ Init!8 /\ Init!9
    /\ Init!10 /\ Init!11 /\ Init!12 /\ Init!13 /\ Init!14 /\ Init!15 /\ Init!16
    /\ Init!17 /\ Init!18 /\ Init!19
    /\ store \in SUBSET Ts

IntStationId == [type |-> "int", val |-> 7]

\* One iterator consumed to the end against the service.
ConsumerPulls == \E i \in {1} : Start(i) \/ Resume(i)
GeneratorRuns ==
    \E i \in {1} :
        \/ Fetch(i, ServerAnswers(i))
        \/ Exhaust(i)
        \/ Yield(i)
        \/ \E over \in Oversleeps : EndPage(i, over)
NextLive ==
    \/ /\ pc[1] = "none"
       /\ \E a \in OptTs, b \in OptTs, r \in BOOLEAN, d \in PollDelays :
              Call(1, IntStationId, a, b, r, d)
    \/ ConsumerPulls
    \/ GeneratorRuns

\* The consumer keeps pulling and the generator's code keeps running.
SpecLive == InitServer /\ [][NextLive]_vars /\ WF_vars(ConsumerPulls) /\ WF_vars(GeneratorRuns)

\* Two iterators of one client, their pulls interleaved, against the service;
\* a finished iterator may be replaced by a new call.
NextPair ==
    \E i \in Iters :
        \/ \E a \in CallerBounds, b \in CallerBounds, r \in BOOLEAN :
               Call(i, IntStationId, a, b, r, 0)
        \/ Start(i)
        \/ Resume(i)
        \/ Fetch(i, ServerAnswers(i))
        \/ Exhaust(i)
        \/ Yield(i)
        \/ EndPage(i, 0)

SpecPair == InitServer /\ [][NextPair]_vars

\* ------------------------------------------------------------- properties

ErrorKinds == {"AssertionError", "RequestError", "KeyError"}

IsPrefix(s, t) == Len(s) <= Len(t) /\ s = SubSeq(t, 1, Len(s))

\* C1: when the generator is exhausted, the consumer has received exactly the
\* measurements of the pages fetched, in page order and in within-page order;
\* every fetch returned a page, the last page is the first one that reported
\* has_further_data = false, and so no fetch followed it.
C1_ExhaustionDeliversAllPages ==
    \A i \in Iters :
        pc[i] = "done" =>
            /\ yielded[i] = received[i]
            /\ nfetch[i] >= 1
            /\ Len(hfdLog[i]) = nfetch[i]
            /\ hfdLog[i][nfetch[i]] = FALSE
            /\ \A k \in 1 .. nfetch[i] - 1 : hfdLog[i][k] = TRUE

C1_Witness ==
    /\ pc[1] = "done"
    /\ nfetch[1] = 3
    /\ Len(yielded[1]) = 2
    /\ yielded[1][1] # yielded[1][2]

\* C2: every fetch after the first is issued with the iteration-side bound
\* equal to the next_ts of the page before it and with the opposite-side bound
\* equal to the one of the original call.
C2_CursorAdvance ==
    [][ \A i \in Iters :
          (nfetch'[i] = nfetch[i] + 1 /\ nfetch[i] >= 1 /\ lastReq'[i] # NoRequest) =>
              LET p == lastReq'[i].params
              IN  IF args[i].reverse_order
                  THEN /\ ParamOr(p, "before_ts") = result[i].next_ts
                       /\ ParamOr(p, "after_ts") = args[i].after_ts
                  ELSE /\ ParamOr(p, "after_ts") = result[i].next_ts
                       /\ ParamOr(p, "before_ts") = args[i].before_ts ]_vars

C2_Witness ==
    /\ nfetch[1] = 3
    /\ pc[1] = "for"
    /\ ~args[1].reverse_order
    /\ args[1].before_ts = 1
    /\ ParamOr(lastReq[1].params, "after_ts") = 2
    /\ ParamOr(lastReq[1].params, "before_ts") = 1

\* C3 (as stated): once the first measurement has been yielded and the
\* consumer has not pulled again, at most one page fetch has been made.
C3_NoSecondFetchAfterFirstYield ==
    \A i \in Iters :
        (pc[i] = "suspended" /\ Len(yielded[i]) = 1) => nfetch[i] <= 1

\* C3 (amended): a page fetch is made only while a next() of the consumer is
\* running, when every measurement received so far has been yielded and the
\* consumer has asked for one more; a generator suspended at a yield has been
\* pulled exactly as often as it has yielded; and a second fetch precedes the
\* first yielded measurement only when the pages before it were empty.
C3_PullDriven ==
    /\ [] \A i \in Iters :
            /\ pc[i] = "suspended" => pulls[i] = Len(yielded[i])
            /\ nfetch[i] >= 1 => pulls[i] >= 1
            /\ (pc[i] = "suspended" /\ Len(yielded[i]) = 1) =>
                   (nfetch[i] = 1 \/ Len(received[i]) = Len(result[i].measurements))
    /\ [][ \A i \in Iters :
             nfetch'[i] > nfetch[i] =>
                 /\ pulls[i] = Len(yielded[i]) + 1
                 /\ pulls'[i] = pulls[i]
                 /\ yielded[i] = received[i] ]_vars

C3_Witness ==
    /\ pc[1] = "suspended"
    /\ nfetch[1] = 2
    /\ Len(yielded[1]) = 2
    /\ pulls[1] = 2

\* C4: when a page fetch raises, the consumer's next() gets that error, the
\* generator is closed (the fetch is not retried and no later fetch is made),
\* and the measurements of the pages before it have all been yielded and stay
\* as they were.
C4_FetchErrorEndsIteration ==
    /\ [] \A i \in Iters :
            /\ outcome[i] \in ErrorKinds => pc[i] = "raised"
            /\ pc[i] = "raised" =>
                   /\ outcome[i] \in ErrorKinds \cup {"StopIteration"}
                   /\ nfetch[i] = Len(hfdLog[i]) + 1
                   /\ yielded[i] = received[i]
    /\ [][ \A i \in Iters :
             /\ (pc[i] # "raised" /\ pc'[i] = "raised") =>
                    /\ outcome'[i] \in ErrorKinds
                    /\ pulls'[i] = pulls[i]
                    /\ yielded'[i] = yielded[i]
             /\ pc[i] = "raised" =>
                    /\ pc'[i] = "raised"
                    /\ nfetch'[i] = nfetch[i]
                    /\ yielded'[i] = yielded[i] ]_vars

C4_Witness ==
    /\ pc[1] = "raised"
    /\ outcome[1] = "RequestError"
    /\ nfetch[1] = 3
    /\ Len(yielded[1]) = 2

\* The types Python counts as integers.
IntegerTypes == {"int", "bool"}

\* C5: get_station_details_by_id with a station_id that is not an integer
\* fails with the assertion's error and sends no request.
C5_NonIntegerStationRejected ==
    (api.op = "get_station" /\ api.station_id.type \notin IntegerTypes) =>
        (api.raised = "AssertionError" /\ api.sent = 0)

C5_Witness ==
    /\ api.op = "get_station"
    /\ api.station_id.type = "str"
    /\ api.raised = "AssertionError"

\* The query parameters of the request of the last direct call are those the
\* caller's arguments ask for.
ParamsAsAsked ==
    LET p == api.req.params
    IN  /\ "reverse_order" \in DOMAIN p
        /\ p.reverse_order = api.reverse_order
        /\ ("limit" \in DOMAIN p) <=> (api.limit # None)
        /\ ("limit" \in DOMAIN p) => p.limit = api.limit
        /\ ("after_ts" \in DOMAIN p) <=> (api.after_ts # None)
        /\ ("after_ts" \in DOMAIN p) => p.after_ts = api.after_ts
        /\ ("before_ts" \in DOMAIN p) <=> (api.before_ts # None)
        /\ ("before_ts" \in DOMAIN p) => p.before_ts = api.before_ts
        /\ DOMAIN p \subseteq {"reverse_order", "limit", "after_ts", "before_ts"}

\* C6 (as stated): every call of get_station_measurements_by_id sends exactly
\* one request, whose parameters are those asked for.
C6_EveryCallSendsOneRequest ==
    api.op = "get_measurements" => (api.sent = 1 /\ ParamsAsAsked)

\* C6 (amended): a call of get_station_measurements_by_id with an integer
\* station_id sends exactly one request, whose parameters hold reverse_order
\* always and limit, after_ts, before_ts exactly when given, with the caller's
\* values; a call with any other station_id fails the assertion and sends none.
C6_IntegerCallSendsOneRequest ==
    api.op = "get_measurements" =>
        IF api.station_id.type \in IntegerTypes
        THEN api.sent = 1 /\ ParamsAsAsked
        ELSE api.sent = 0 /\ api.raised = "AssertionError"

C6_Witness ==
    /\ api.op = "get_measurements"
    /\ api.station_id.type = "int"
    /\ api.limit = None
    /\ api.after_ts # None
    /\ api.before_ts = None
    /\ api.sent = 1
    /\ api.raised = "none"

\* C7: whenever the generator stands at the head of its loop after a page (the
\* only place a fetch is issued from) or has returned, it has slept at least
\* max(poll_delay, 0.1 s) since the last fetch; it has slept once for every
\* page it has used up, the last page included.
C7_WaitBetweenFetches ==
    \A i \in Iters :
        /\ (pc[i] \in {"loop", "done"} /\ nfetch[i] >= 1) =>
               slept[i] >= Max(args[i].poll_delay, MinPollDelay)
        /\ pc[i] \in {"loop", "done", "raised"} => nsleep[i] = Len(hfdLog[i])
        /\ pc[i] \in {"for", "suspended"} => nsleep[i] = Len(hfdLog[i]) - 1

C7_Witness ==
    /\ pc[1] = "done"
    /\ args[1].poll_delay = 0
    /\ nfetch[1] = 2
    /\ nsleep[1] = 2
    /\ slept[1] = MinPollDelay

\* C8: against a service that holds a finite set of measurements, a consumer
\* that keeps pulling reaches the end of the iteration, in either direction.
C8_FiniteDataTerminates ==
    \A i \in {1} : (pc[i] = "created") ~> (pc[i] = "done")

C8_Witness ==
    /\ pc[1] = "done"
    /\ args[1].reverse_order
    /\ nfetch[1] = 2
    /\ Len(yielded[1]) = 2

\* C9: every page the page fetcher returns has next_ts present when
\* has_further_data is true, and every fetch after the first carries the
\* bound of the iteration side.
C9_NextTsPresent ==
    \A i \in Iters :
        /\ (result[i] # NoResult /\ result[i].has_further_data) => result[i].next_ts # None
        /\ (nfetch[i] >= 2 /\ lastReq[i] # NoRequest) =>
               IF args[i].reverse_order
               THEN "before_ts" \in DOMAIN lastReq[i].params
               ELSE "after_ts" \in DOMAIN lastReq[i].params

\* The iteration of a call consumed alone against the service that holds st:
\* the cursor before fetch k + 1, the page of fetch k, the measurements of the
\* first k pages.
RECURSIVE SoloCursor(_, _, _)
SoloPageAt(st, a, c) ==
    ResultFromApi(ServerBody(st, BuildParams(c.after_ts, c.before_ts, PageLimit, a.reverse_order)))
SoloCursor(st, a, k) ==
    IF k = 0 THEN [after_ts |-> a.after_ts, before_ts |-> a.before_ts]
    ELSE LET c == SoloCursor(st, a, k - 1)
         IN  CursorAfterPage(SoloPageAt(st, a, c), a.reverse_order, c.after_ts, c.before_ts)
SoloParams(st, a, k) ==
    LET c == SoloCursor(st, a, k - 1)
    IN  BuildParams(c.after_ts, c.before_ts, PageLimit, a.reverse_order)
RECURSIVE SoloReceived(_, _, _)
SoloReceived(st, a, k) ==
    IF k = 0 THEN <<>>
    ELSE SoloReceived(st, a, k - 1) \o SoloPageAt(st, a, SoloCursor(st, a, k - 1)).measurements

\* C10: with the pulls of two iterators interleaved in any way, each iterator
\* issues the requests and yields the measurements of its own call consumed
\* alone, and an iterator that has not fetched yet holds its caller's bounds.
C10_IteratorsIndependent ==
    \A i \in Iters :
        /\ (pc[i] = "loop" /\ nfetch[i] = 0) =>
               /\ next_after_ts[i] = args[i].after_ts
               /\ next_before_ts[i] = args[i].before_ts
        /\ nfetch[i] >= 1 =>
               /\ lastReq[i].params = SoloParams(store, args[i], nfetch[i])
               /\ received[i] = SoloReceived(store, args[i], nfetch[i])
               /\ IsPrefix(yielded[i], received[i])
        /\ pc[i] = "done" => yielded[i] = received[i]

C10_Witness ==
    /\ pc[1] = "suspended"
    /\ pc[2] = "suspended"
    /\ nfetch[1] = 2
    /\ nfetch[2] = 2
    /\ args[1].reverse_order
    /\ ~args[2].reverse_order

====
